---- MODULE Spec2Model ----
(***************************************************************************)
(* Model of the guarded command execution agent of NeuroHub:               *)
(*   services/mcp/cmd_exec.py  (main loop, sanitizer, success classifier)  *)
(*   services/mcp/core.py      (extract_command, safety predicates)        *)
(* Text is modelled as a sequence of one-character strings, so that the    *)
(* substring tests, strip() and splitlines() of the source are computed    *)
(* character by character.                                                 *)
(***************************************************************************)
EXTENDS Integers, Sequences, FiniteSets, TLC

(***************************************************************************)
(* Python string primitives                                                *)
(***************************************************************************)

\* str.strip() / str.splitlines() character classes
WhiteSpace == {" ", "\t", "\n", "\r", "\f"}
LineBreaks == {"\n", "\r", "\f"}

\* str.lower() on one character
LowerChar(c) ==
    CASE c = "A" -> "a" [] c = "B" -> "b" [] c = "C" -> "c" [] c = "D" -> "d"
      [] c = "E" -> "e" [] c = "F" -> "f" [] c = "G" -> "g" [] c = "H" -> "h"
      [] c = "I" -> "i" [] c = "J" -> "j" [] c = "K" -> "k" [] c = "L" -> "l"
      [] c = "M" -> "m" [] c = "N" -> "n" [] c = "O" -> "o" [] c = "P" -> "p"
      [] c = "Q" -> "q" [] c = "R" -> "r" [] c = "S" -> "s" [] c = "T" -> "t"
      [] c = "U" -> "u" [] c = "V" -> "v" [] c = "W" -> "w" [] c = "X" -> "x"
      [] c = "Y" -> "y" [] c = "Z" -> "z" [] OTHER -> c

Lower(s) == [i \in 1..Len(s) |-> LowerChar(s[i])]

\* sub in s
Contains(s, sub) ==
    \E i \in 0..(Len(s) - Len(sub)) : SubSeq(s, i + 1, i + Len(sub)) = sub

\* s.startswith(p)
StartsWith(s, p) == Len(s) >= Len(p) /\ SubSeq(s, 1, Len(p)) = p

\* s.strip()
Strip(s) ==
    LET keep == {i \in 1..Len(s) : s[i] \notin WhiteSpace}
    IN  IF keep = {} THEN <<>>
        ELSE LET lo == CHOOSE i \in keep : \A j \in keep : i <= j
                 hi == CHOOSE i \in keep : \A j \in keep : i >= j
             IN  SubSeq(s, lo, hi)

\* index of the first line boundary of s, 0 when there is none
FirstBreak(s) ==
    LET br == {i \in 1..Len(s) : s[i] \in LineBreaks}
    IN  IF br = {} THEN 0 ELSE CHOOSE i \in br : \A j \in br : i <= j

\* s.splitlines(): "\r\n" is one boundary, a trailing boundary adds no line
RECURSIVE SplitLines(_)
SplitLines(s) ==
    IF s = <<>> THEN <<>>
    ELSE LET b == FirstBreak(s)
         IN  IF b = 0 THEN <<s>>
             ELSE LET skip == IF s[b] = "\r" /\ b < Len(s) /\ s[b + 1] = "\n"
                              THEN b + 1 ELSE b
                  IN  <<SubSeq(s, 1, b - 1)>> \o SplitLines(SubSeq(s, skip + 1, Len(s)))

\* "\n".join(lines)
RECURSIVE JoinLines(_)
JoinLines(lines) ==
    IF lines = <<>> THEN <<>>
    ELSE IF Len(lines) = 1 THEN lines[1]
    ELSE lines[1] \o <<"\n">> \o JoinLines(Tail(lines))

\* Optional[str] results, and a raised exception
NoneV == [kind |-> "none", val |-> <<>>]
Str(s) == [kind |-> "str", val |-> s]
Raised == [kind |-> "raise", val |-> <<>>]

(***************************************************************************)
(* core.py: safety predicates                                              *)
(***************************************************************************)

DANGER_TOKENS == {
    <<" ","r","m"," ","-","r","f">>,                              \* " rm -rf"
    <<" ","m","k","f","s">>,                                      \* " mkfs"
    <<" ","d","d"," ","i","f","=">>,                              \* " dd if="
    <<" ",":","(",")","{"," ",":","|",":","&"," ","}",";",":">>,  \* " :(){ :|:& };:"
    <<" ","s","h","u","t","d","o","w","n">>,                      \* " shutdown"
    <<" ","r","e","b","o","o","t">>,                              \* " reboot"
    <<" ","p","o","w","e","r","o","f","f">>,                      \* " poweroff"
    <<" ","i","n","i","t"," ","0">>,                              \* " init 0"
    <<" ","c","h","o","w","n"," ","-","R"," ","/">>,              \* " chown -R /"
    <<" ",":","(",")","{",":","|",":","&","}",";",":">> }         \* " :(){:|:&};:"

SudoToken == <<" ","s","u","d","o"," ">>

\* f" {cmd.lower()} "
Padded(cmd) == <<" ">> \o cmd \o <<" ">>

is_dangerous(cmd) ==
    IF cmd = <<>> THEN TRUE
    ELSE LET low == Padded(Lower(cmd))
         IN  IF Contains(low, SudoToken) THEN TRUE
             ELSE \E tok \in DANGER_TOKENS : Contains(low, tok)

Banned == {
    <<" ","s","u","d","o"," ">>,                      \* " sudo "
    <<" ","r","m"," ">>,                              \* " rm "
    <<" ","m","k","f","s">>,                          \* " mkfs"
    <<" ","d","d"," ">>,                              \* " dd "
    <<" ","c","h","m","o","d"," ">>,                  \* " chmod "
    <<" ","c","h","o","w","n"," ">>,                  \* " chown "
    <<" ","c","h","g","r","p"," ">>,                  \* " chgrp "
    <<" ",">"," ">>,                                  \* " > "
    <<" ",">",">"," ">>,                              \* " >> "
    <<" ","t","e","e"," ">>,                          \* " tee "
    <<" ",":",">"," ">>,                              \* " :> "
    <<" ","t","r","u","n","c","a","t","e"," ">> }     \* " truncate "

non_destructive_only(cmd) ==
    IF cmd = <<>> THEN FALSE
    ELSE LET low == Padded(Lower(cmd))
         IN  IF \E b \in Banned : Contains(low, b) THEN FALSE
             ELSE ~Contains(cmd, <<"\n">>)

(***************************************************************************)
(* core.py: extract_command                                                *)
(***************************************************************************)

WordChars == {"a","b","c","d","e","f","g","h","i","j","k","l","m","n","o",
              "p","q","r","s","t","u","v","w","x","y","z","0","1","2","3",
              "4","5","6","7","8","9","_"}

\* The grave accent (U+0060), which a TLA+ string cannot hold, is this atom.
Backtick == "BACKTICK"
Fence == <<Backtick, Backtick, Backtick>>

\* _CODE_FENCE_START: a fence, optional word characters, optional whitespace
CodeFenceStart(line) ==
    /\ StartsWith(line, Fence)
    /\ \E k \in 3..Len(line) :
          /\ \A i \in 4..k : LowerChar(line[i]) \in WordChars
          /\ \A i \in (k + 1)..Len(line) : line[i] \in WhiteSpace

\* _CODE_FENCE_END: a fence, optional whitespace
CodeFenceEnd(line) ==
    /\ StartsWith(line, Fence)
    /\ \A i \in 4..Len(line) : line[i] \in WhiteSpace

strip_code_fences_text(text) ==
    IF text = <<>> THEN text
    ELSE LET lines == SplitLines(text)
             ends  == {i \in 1..Len(lines) : CodeFenceEnd(lines[i])}
         IN  IF lines # <<>> /\ CodeFenceStart(lines[1]) /\ ends # {}
             THEN LET last == CHOOSE i \in ends : \A j \in ends : i >= j
                  IN  Strip(JoinLines(SubSeq(lines, 2, last - 1)))
             ELSE Strip(text)

\* the first line that is neither blank nor a comment, its "$" marker removed
extract_command(text) ==
    IF text = <<>> THEN NoneV
    ELSE LET lines == SplitLines(strip_code_fences_text(text))
             ok == {i \in 1..Len(lines) :
                       Strip(lines[i]) # <<>> /\ Strip(lines[i])[1] # "#"}
         IN  IF ok = {} THEN NoneV
             ELSE LET first == CHOOSE i \in ok : \A j \in ok : i <= j
                      s == Strip(lines[first])
                  IN  IF s[1] = "$" THEN Str(Strip(Tail(s))) ELSE Str(s)

(***************************************************************************)
(* cmd_exec.py: sanitize_command                                           *)
(***************************************************************************)

\* The text the gate looks at: cmd stripped, one "$" removed, stripped again.
Unmarked(cmd) ==
    LET s == Strip(cmd)
    IN  IF s # <<>> /\ s[1] = "$" THEN Strip(Tail(s)) ELSE s

sanitize_command_unsudo(cmd) ==
    IF cmd = <<>> THEN NoneV
    ELSE LET u == Unmarked(cmd)
         IN  IF u = <<>> THEN Raised
             ELSE LET l == Strip(SplitLines(u)[1])
                      s == IF StartsWith(l, <<"s","u","d","o"," ">>)
                           THEN Strip(SubSeq(l, 6, Len(l))) ELSE l
                  IN  IF is_dangerous(s) \/ ~non_destructive_only(s)
                      THEN NoneV ELSE Str(s)

sanitize_command_nogate(cmd) ==
    IF cmd = <<>> THEN NoneV
    ELSE LET u == Unmarked(cmd)
         IN  IF u = <<>> THEN Raised ELSE Str(Strip(SplitLines(u)[1]))

\* s.splitlines()[0].strip(); splitlines() of "" is [] and [0] raises IndexError
sanitize_command(cmd) ==
    IF cmd = <<>> THEN NoneV
    ELSE LET u == Unmarked(cmd)
         IN  IF u = <<>> THEN Raised
             ELSE LET s == Strip(SplitLines(u)[1])
                  IN  IF is_dangerous(s) \/ ~non_destructive_only(s)
                      THEN NoneV ELSE Str(s)

(***************************************************************************)
(* cmd_exec.py: recipes, success patterns, success classifier              *)
(***************************************************************************)

\* The ASCII keyword of the keyword list shared by pick_recipe and
\* auto_success_pattern; its four other keywords are non-ASCII spellings.
GoalKeywords == { <<"g","l","o","b","a","l"," ","i","p">> }        \* "global ip"

\* RECIPES["global_ip"], cut to its first tool: "curl -fsS https://ifconfig.me"
RECIPES ==
    <<"c","u","r","l"," ","-","f","s","S"," ","h","t","t","p","s",":","/","/",
      "i","f","c","o","n","f","i","g",".","m","e">>

pick_recipe_none(goal) == NoneV

pick_recipe(goal) ==
    IF \E k \in GoalKeywords : Contains(Lower(goal), k) THEN Str(RECIPES) ELSE NoneV

\* compiled patterns: none, the auto-derived IPv4 pattern, or a literal text
NoPattern == [kind |-> "none", lit |-> <<>>]
IPv4Pattern == [kind |-> "ipv4", lit |-> <<>>]
Literal(t) == [kind |-> "literal", lit |-> t]

auto_success_pattern(goal) ==
    IF \E k \in GoalKeywords : Contains(Lower(goal), k) THEN IPv4Pattern ELSE NoPattern

Digits == {"0","1","2","3","4","5","6","7","8","9"}
IsWord(c) == LowerChar(c) \in WordChars

\* (?:\d{1,3}\.){3}\d{1,3} between two word boundaries, anywhere in out
IPv4Search(out) ==
    \E p \in 1..Len(out) : \E a, b, c, d \in 1..3 :
        LET e  == p + a + b + c + d + 2
            g1 == p..(p + a - 1)
            g2 == (p + a + 1)..(p + a + b)
            g3 == (p + a + b + 2)..(p + a + b + c + 1)
            g4 == (p + a + b + c + 3)..e
        IN  /\ e <= Len(out)
            /\ \A i \in g1 \cup g2 \cup g3 \cup g4 : out[i] \in Digits
            /\ out[p + a] = "." /\ out[p + a + b + 1] = "."
            /\ out[p + a + b + c + 2] = "."
            /\ (p = 1 \/ ~IsWord(out[p - 1]))
            /\ (e = Len(out) \/ ~IsWord(out[e + 1]))

\* success_pattern.search(out)
PatternSearch(pat, out) ==
    IF pat.kind = "ipv4" THEN IPv4Search(out) ELSE Contains(out, pat.lit)

Max(a, b) == IF a >= b THEN a ELSE b

is_effective_success_nopat(rc, out, require_output, success_pattern, min_bytes) ==
    IF rc # 0 THEN FALSE
    ELSE IF require_output /\ Len(Strip(out)) < Max(0, min_bytes) THEN FALSE
    ELSE TRUE

is_effective_success_noout(rc, out, require_output, success_pattern, min_bytes) ==
    IF rc # 0 THEN FALSE
    ELSE IF success_pattern.kind # "none" /\ ~PatternSearch(success_pattern, out) THEN FALSE
    ELSE TRUE

is_effective_success(rc, out, require_output, success_pattern, min_bytes) ==
    IF rc # 0 THEN FALSE
    ELSE IF require_output /\ Len(Strip(out)) < Max(0, min_bytes) THEN FALSE
    ELSE IF success_pattern.kind # "none" /\ ~PatternSearch(success_pattern, out) THEN FALSE
    ELSE TRUE

(***************************************************************************)
(* cmd_exec.py: the retry decision                                         *)
(* A collaborator response is a sequence of pieces: prose without braces,  *)
(* a stray "{" or "}", or one well-formed JSON object.                     *)
(***************************************************************************)

AbsentWait == [kind |-> "absent", n |-> 0]
NumWait(n) == [kind |-> "num", n |-> n]
TextWait == [kind |-> "text", n |-> 0]

\* a JSON object: retry is absent / true / false, wait_sec is absent, a number
\* or a non-numeric string, next_cmd is absent or a string, extra says whether
\* the object has other keys
EmptyPlan == [retry |-> "absent", wait |-> AbsentWait, next |-> NoneV, extra |-> FALSE]

Prose == [t |-> "text", plan |-> EmptyPlan]
OpenBrace == [t |-> "open", plan |-> EmptyPlan]
CloseBrace == [t |-> "close", plan |-> EmptyPlan]
Obj(p) == [t |-> "obj", plan |-> p]

NoDict == [kind |-> "none", plan |-> EmptyPlan]
Dict(p) == [kind |-> "dict", plan |-> p]

\* re.search(r"\{.*\}", text, re.S): from the first "{" to the last "}";
\* json.loads succeeds on that span only when it is exactly one object
extract_json_line(text) ==
    IF text = <<>> THEN NoDict
    ELSE LET opens == {i \in 1..Len(text) : text[i].t \in {"open", "obj"}}
         IN  IF opens = {} THEN NoDict
             ELSE LET first  == CHOOSE i \in opens : \A j \in opens : i <= j
                      closes == {i \in first..Len(text) : text[i].t \in {"close", "obj"}}
                  IN  IF closes = {} THEN NoDict
                      ELSE LET last == CHOOSE i \in closes : \A j \in closes : i >= j
                           IN  IF first = last THEN Dict(text[first].plan)
                               ELSE IF last = first + 1 /\ text[first].t = "open"
                                       /\ text[last].t = "close"
                                    THEN Dict(EmptyPlan)
                               ELSE NoDict

\* "not plan": no dictionary, or the empty dictionary
PlanMissing(d) == d.kind = "none" \/ d.plan = EmptyPlan

(***************************************************************************)
(* Inputs of a run                                                         *)
(***************************************************************************)

\* largest --max-attempts explored
MaxAttempts == 2

cLs         == <<"l","s">>                                   \* "ls"
cSudoLs     == <<"s","u","d","o"," ","l","s">>               \* "sudo ls"
cRmRf       == <<"r","m"," ","-","r","f"," ","/">>           \* "rm -rf /"
cLsReboot   == <<"l","s",";","r","e","b","o","o","t">>       \* "ls;reboot"
cRedirect   == <<"l","s"," ",">"," ","f">>                   \* "ls > f"
cMarker     == <<"$">>                                       \* "$"
cMarkerLs   == <<"$","\n","l","s">>                          \* "$\nls"
cTwoMarkers == <<"$","$","l","s">>                           \* "$$ls"
cDollarLs   == <<"$"," ","l","s">>                           \* "$ ls"
cDollarSudo == <<"$"," ","s","u","d","o"," ","l","s">>       \* "$ sudo ls"
cGoalIp     == <<"G","l","o","b","a","l"," ","I","P">>       \* "Global IP"
cGoalDir    == <<"d","i","r">>                               \* "dir"
cFenced     == <<Backtick,Backtick,Backtick,"s","h","\n","l","s","\n",
                 Backtick,Backtick,Backtick>>                \* fenced "ls"
cComment    == <<"#"," ","c">>                               \* "# c"

\* values of --cmd
DirectCmds == {cLs, cSudoLs, cRmRf, cLsReboot, cRedirect, cMarker, cMarkerLs,
               cTwoMarkers}
\* values of the positional input: "$" literals and goals
Inputs == {cDollarLs, cDollarSudo, cMarker, cGoalIp, cGoalDir}
\* ask_llm for the first command: it raises, or returns a body
FirstResponses ==
    {[raise |-> TRUE, body |-> <<>>]}
      \cup {[raise |-> FALSE, body |-> b] :
               b \in {<<>>, cLs, cSudoLs, cLsReboot, cMarker, cFenced, cComment}}

Invocations ==
    {[cmd |-> Str(c), input |-> cLs] : c \in DirectCmds}
      \cup {[cmd |-> NoneV, input |-> g] : g \in Inputs}

\* --require-output / --min-bytes / --success-pattern
Criteria ==
    {[require_output |-> TRUE,  min_bytes |-> 1, success_pattern |-> NoneV],
     [require_output |-> TRUE,  min_bytes |-> 0, success_pattern |-> NoneV],
     [require_output |-> FALSE, min_bytes |-> 1, success_pattern |-> Str(<<"x">>)]}

Policies == {"allow", "deny", "ask"}

ArgSpace ==
    {[sudo |-> s, max_attempts |-> m, crit |-> c, inv |-> i] :
        s \in Policies, m \in (-1)..MaxAttempts, c \in Criteria, i \in Invocations}

\* results of run_once: (rc, stdout, stderr); TimeoutExpired is separate
Outcomes ==
    {[rc |-> 0, out |-> <<"x">>, err |-> <<>>],
     [rc |-> 0, out |-> <<>>, err |-> <<>>],
     [rc |-> 0, out |-> <<" ">>, err |-> <<>>],
     [rc |-> 0, out |-> <<"1",".","2",".","3",".","4">>, err |-> <<>>],
     [rc |-> 1, out |-> <<>>, err |-> <<"e">>],
     [rc |-> 1, out |-> <<"x">>, err |-> <<"e">>]}

\* retry decisions the collaborator may write
Waits == {AbsentWait, NumWait(15), TextWait}
NextCmds == {NoneV, Str(<<" ">>), Str(cLs), Str(cSudoLs), Str(cLsReboot),
             Str(cRmRf), Str(cMarker), Str(cMarkerLs)}
Plans ==
    {[retry |-> r, wait |-> w, next |-> n, extra |-> FALSE] :
        r \in {"absent", "true", "false"}, w \in Waits, n \in NextCmds}
      \cup {[retry |-> "absent", wait |-> AbsentWait, next |-> NoneV, extra |-> TRUE]}
RetryTrue == [retry |-> "true", wait |-> AbsentWait, next |-> NoneV, extra |-> FALSE]
RetryFalse == [retry |-> "false", wait |-> AbsentWait, next |-> NoneV, extra |-> FALSE]

\* ask_llm for a retry plan: it raises, or returns a body
AdviceResponses ==
    {[raise |-> TRUE, body |-> <<>>]}
      \cup {[raise |-> FALSE, body |-> b] :
               b \in {<<Obj(p)>> : p \in Plans}
                     \cup {<<>>, <<Prose>>, <<OpenBrace>>, <<CloseBrace, OpenBrace>>,
                           <<OpenBrace, CloseBrace>>, <<OpenBrace, Prose, CloseBrace>>,
                           <<Prose, Obj(RetryTrue), Prose>>,
                           <<Obj(RetryTrue), Prose, Obj(RetryFalse)>>}}

(***************************************************************************)
(* cmd_exec.py: main                                                       *)
(***************************************************************************)

VARIABLES
    args,          \* the parsed command line, but for --no-explain
    no_explain,    \* --no-explain, drawn where main first reads it (line 290)
    pc,            \* position in main: start, sudo, gate, loop, plan, explain,
                   \* done (main returned), crashed (an exception left main)
    success_pat,   \* compiled success pattern
    initial_cmd,   \* first candidate
    cmdline,       \* command of the next attempt
    attempts,      \* loop counter
    last_rc, last_out, last_err,
    exit_code,     \* return value of main, -1 before it returns
    crash,         \* the exception that left main, "none" otherwise
    runs,          \* history: the calls of run_once
    lastRun,       \* history: what the latest run_once returned
    log,           \* the event log: entries appended by log_event
    llm,           \* history: the calls of ask_llm, by purpose
    passed,        \* history: the non-none results of sanitize_command
    confirms,      \* history: the number of maybe_confirm calls
    declined,      \* history: a confirmation was declined
    adviceShape,   \* history: shape of the latest retry response
    alwaysRetry,   \* history: every attempt failed and every plan was retry=true, blank
    stop,          \* history: why main gave up a candidate (why), the candidate
                   \* (cmd) and the number of run_once calls made by then (at)
    explained,     \* history: the explanation was skipped, made, or failed
    fin, fres      \* input and results (or state) of the harnesses

vars == <<args, no_explain, pc, success_pat, initial_cmd, cmdline, attempts, last_rc, last_out,
          last_err, exit_code, crash, runs, lastRun, log, llm, passed, confirms,
          declined, adviceShape, alwaysRetry, stop, explained, fin, fres>>

mainVars == <<args, no_explain, pc, success_pat, initial_cmd, cmdline, attempts, last_rc, last_out,
              last_err, exit_code, crash, runs, lastRun, log, llm, passed, confirms,
              declined, adviceShape, alwaysRetry, stop, explained>>

NoRun == [rc |-> 1, out |-> <<>>, err |-> <<>>]

NoStop == [why |-> "none", cmd |-> <<>>, at |-> 0]
Stopped(why, cmd) == [why |-> why, cmd |-> cmd, at |-> Len(runs)]

InitMain(a) ==
    /\ args = a
    /\ no_explain = FALSE
    /\ pc = "start"
    /\ success_pat = NoPattern
    /\ initial_cmd = <<>>
    /\ cmdline = <<>>
    /\ attempts = 0
    /\ last_rc = 1 /\ last_out = <<>> /\ last_err = <<>>
    /\ exit_code = -1
    /\ crash = "none"
    /\ runs = <<>>
    /\ lastRun = NoRun
    /\ log = <<>>
    /\ llm = <<>>
    /\ passed = {}
    /\ confirms = 0
    /\ declined = FALSE
    /\ adviceShape = "none"
    /\ alwaysRetry = TRUE
    /\ stop = NoStop
    /\ explained = "none"

Init ==
    /\ \E a \in ArgSpace : InitMain(a)
    /\ fin = <<>> /\ fres = <<>>

\* " sudo " in f" {cmd} "  (no lower-casing here)
has_sudo(cmd) == Contains(Padded(cmd), SudoToken)

sudo_cancelled_never(policy, confirmed) == FALSE

\* lines 196, 275: args.sudo == "ask" and not maybe_confirm(...)
sudo_cancelled(policy, confirmed) == policy = "ask" /\ ~confirmed

\* return <code> from main
Return(code) == pc' = "done" /\ exit_code' = code

\* an exception propagates out of main
Raise(exc) == pc' = "crashed" /\ crash' = exc

proposal_failed_never(c) == FALSE

\* lines 185-187: c is None after an exception, or extract_command gave
\* nothing: "if not c"
proposal_failed(c) == c.kind = "none" \/ c.val = <<>>

\* lines 158-190: success pattern and first candidate
Propose ==
    /\ pc = "start"
    /\ LET direct == args.inv.cmd.kind = "str" /\ args.inv.cmd.val # <<>>
           goal_or_cmd == args.inv.input
           dollar == StartsWith(Strip(goal_or_cmd), <<"$">>)
           auto_pat == auto_success_pattern(
                           IF ~direct /\ ~dollar THEN goal_or_cmd ELSE <<>>)
           recipe == pick_recipe(goal_or_cmd)
       IN  /\ success_pat' = IF args.crit.success_pattern.kind = "str"
                             THEN Literal(args.crit.success_pattern.val)
                             ELSE auto_pat
           /\ IF direct
              THEN /\ initial_cmd' = args.inv.cmd.val
                   /\ pc' = "sudo"
                   /\ UNCHANGED <<llm, exit_code, stop>>
              ELSE IF dollar
              THEN /\ initial_cmd' = Strip(Tail(Strip(goal_or_cmd)))
                   /\ pc' = "sudo"
                   /\ UNCHANGED <<llm, exit_code, stop>>
              ELSE IF recipe.kind = "str"
              THEN /\ initial_cmd' = recipe.val
                   /\ pc' = "sudo"
                   /\ UNCHANGED <<llm, exit_code, stop>>
              ELSE \E resp \in FirstResponses :
                      LET c == IF resp.raise THEN NoneV ELSE extract_command(resp.body)
                      IN  /\ llm' = Append(llm, "first")
                          /\ IF proposal_failed(c)
                             THEN /\ Return(1)
                                  /\ stop' = Stopped("proposal", <<>>)
                                  /\ UNCHANGED initial_cmd
                             ELSE /\ initial_cmd' = c.val
                                  /\ pc' = "sudo"
                                  /\ UNCHANGED <<exit_code, stop>>
    /\ UNCHANGED <<args, no_explain, cmdline, attempts, last_rc, last_out, last_err, crash, runs,
                   lastRun, log, passed, confirms, declined, adviceShape, alwaysRetry,
                   explained, fin, fres>>

sudo_denied_never(policy) == FALSE

\* lines 193, 272: args.sudo == "deny"
sudo_denied(policy) == policy = "deny"

\* lines 192-198: sudo policy on the first candidate
SudoPolicy ==
    /\ pc = "sudo"
    /\ IF ~has_sudo(initial_cmd)
       THEN pc' = "gate" /\ UNCHANGED <<exit_code, confirms, declined, stop>>
       ELSE IF sudo_denied(args.sudo)
       THEN /\ Return(1)
            /\ stop' = Stopped("sudo-deny", initial_cmd)
            /\ UNCHANGED <<confirms, declined>>
       ELSE IF args.sudo = "ask"
       THEN \E answer \in BOOLEAN :
               /\ confirms' = confirms + 1
               /\ declined' = (declined \/ ~answer)
               /\ IF sudo_cancelled(args.sudo, answer)
                  THEN Return(1) /\ stop' = Stopped("sudo-cancel", initial_cmd)
                  ELSE pc' = "gate" /\ UNCHANGED <<exit_code, stop>>
       ELSE pc' = "gate" /\ UNCHANGED <<exit_code, confirms, declined, stop>>
    /\ UNCHANGED <<args, no_explain, success_pat, initial_cmd, cmdline, attempts, last_rc, last_out,
                   last_err, crash, runs, lastRun, log, llm, passed, adviceShape,
                   alwaysRetry, explained, fin, fres>>

gate_rejects_never(safe) == FALSE

\* lines 201, 280: "if not cmdline", "if not safe_cmd"
gate_rejects(safe) == safe.kind = "none"

\* lines 200-209: the gate on the first candidate
Gate ==
    /\ pc = "gate"
    /\ LET safe == sanitize_command(initial_cmd)
       IN  IF safe.kind = "raise"
           THEN Raise("IndexError") /\ UNCHANGED <<cmdline, exit_code, passed, stop>>
           ELSE IF gate_rejects(safe)
           THEN /\ Return(1)
                /\ stop' = Stopped("gate", initial_cmd)
                /\ UNCHANGED <<cmdline, crash, passed>>
           ELSE /\ cmdline' = safe.val
                /\ passed' = passed \cup {safe.val}
                /\ pc' = "loop"
                /\ UNCHANGED <<exit_code, crash, stop>>
    /\ UNCHANGED <<args, no_explain, success_pat, initial_cmd, attempts, last_rc, last_out, last_err,
                   runs, lastRun, log, llm, confirms, declined, adviceShape, alwaysRetry,
                   explained, fin, fres>>

loop_continues_le(n, max_attempts) == n <= max_attempts

\* line 213: while attempts < args.max_attempts
loop_continues(n, max_attempts) == n < max_attempts

after_attempt_plan(ok) == "plan"

\* lines 235-238: "if ok: ... break", else the retry plan
after_attempt(ok) == IF ok THEN "explain" ELSE "plan"

\* lines 213-241: one attempt: run_once, log_event, classification
Attempt ==
    /\ pc = "loop"
    /\ loop_continues(attempts, args.max_attempts)
    /\ attempts' = attempts + 1
    /\ \/ \* subprocess.run raises TimeoutExpired, which nothing catches
          /\ runs' = Append(runs, [cmd |-> cmdline, timeout |-> TRUE, rc |-> -1])
          /\ Raise("TimeoutExpired")
          /\ alwaysRetry' = FALSE
          /\ UNCHANGED <<lastRun, log, last_rc, last_out, last_err>>
       \/ \E o \in Outcomes :
             /\ runs' = Append(runs, [cmd |-> cmdline, timeout |-> FALSE, rc |-> o.rc])
             /\ lastRun' = o
             /\ log' = Append(log, [kind |-> "exec", cmd |-> cmdline, rc |-> o.rc,
                                    attempt |-> attempts'])
             /\ last_rc' = o.rc /\ last_out' = o.out /\ last_err' = o.err
             /\ LET ok == is_effective_success(o.rc, o.out, args.crit.require_output,
                                               success_pat, args.crit.min_bytes)
                IN  /\ pc' = after_attempt(ok)
                    /\ alwaysRetry' = (alwaysRetry /\ ~ok)
             /\ UNCHANGED crash
    /\ UNCHANGED <<args, no_explain, success_pat, initial_cmd, cmdline, exit_code, llm, passed,
                   confirms, declined, adviceShape, stop, explained, fin, fres>>

\* line 213: the loop condition fails
LoopExit ==
    /\ pc = "loop"
    /\ ~loop_continues(attempts, args.max_attempts)
    /\ pc' = "explain"
    /\ UNCHANGED <<args, no_explain, success_pat, initial_cmd, cmdline, attempts, last_rc, last_out,
                   last_err, exit_code, crash, runs, lastRun, log, llm, passed, confirms,
                   declined, adviceShape, alwaysRetry, stop, explained, fin, fres>>

\* line 270: next_cmd_raw.strip() or cmdline
next_command(next, cur) ==
    IF next.kind = "str" /\ Strip(next.val) # <<>> THEN Strip(next.val) ELSE cur

\* shape of a retry response: the call raised, no JSON object, an object
\* without the retry key, a non-numeric wait, a next command that is only the
\* "$" marker, or a well-formed decision
AdviceShape(resp) ==
    IF resp.raise THEN "raise"
    ELSE LET d == extract_json_line(resp.body)
         IN  IF d.kind = "none" THEN "nojson"
             ELSE IF d.plan.retry = "absent" THEN "nokeys"
             ELSE IF d.plan.wait.kind = "text" THEN "badwait"
             ELSE IF d.plan.next.kind = "str" /\ Strip(d.plan.next.val) = <<"$">>
                  THEN "marker"
             ELSE "valid"

\* a well-formed retry=true decision with a blank next command
BlankRetry(resp) ==
    /\ AdviceShape(resp) = "valid"
    /\ LET p == extract_json_line(resp.body).plan
       IN  p.retry = "true" /\ (p.next.kind = "none" \/ Strip(p.next.val) = <<>>)

\* lines 242-287: the retry plan, its sudo policy and its gate
PlanRetry ==
    /\ pc = "plan"
    /\ \E resp \in AdviceResponses :
        /\ llm' = Append(llm, "retry")
        /\ adviceShape' = AdviceShape(resp)
        /\ LET plan == extract_json_line(resp.body)
               next_cmd == next_command(plan.plan.next, cmdline)
               safe == sanitize_command(next_cmd)
           IN  IF resp.raise \/ PlanMissing(plan)
               THEN /\ pc' = "explain" /\ alwaysRetry' = FALSE
                    /\ stop' = Stopped("r-noplan", <<>>)
                    /\ UNCHANGED <<cmdline, crash, passed, confirms, declined>>
               ELSE IF plan.plan.wait.kind = "text"
               THEN /\ Raise("ValueError") /\ alwaysRetry' = FALSE
                    /\ UNCHANGED <<cmdline, passed, confirms, declined, stop>>
               ELSE IF plan.plan.retry # "true"
               THEN /\ pc' = "explain" /\ alwaysRetry' = FALSE
                    /\ stop' = Stopped("r-noretry", <<>>)
                    /\ UNCHANGED <<cmdline, crash, passed, confirms, declined>>
               ELSE IF has_sudo(next_cmd) /\ sudo_denied(args.sudo)
               THEN /\ pc' = "explain" /\ alwaysRetry' = FALSE
                    /\ stop' = Stopped("r-sudo-deny", next_cmd)
                    /\ UNCHANGED <<cmdline, crash, passed, confirms, declined>>
               ELSE \E answer \in BOOLEAN :
                    LET asked == has_sudo(next_cmd) /\ args.sudo = "ask"
                    IN  /\ confirms' = IF asked THEN confirms + 1 ELSE confirms
                        /\ declined' = (declined \/ (asked /\ ~answer))
                        /\ IF asked /\ sudo_cancelled(args.sudo, answer)
                           THEN /\ pc' = "explain" /\ alwaysRetry' = FALSE
                                /\ stop' = Stopped("r-sudo-cancel", next_cmd)
                                /\ UNCHANGED <<cmdline, crash, passed>>
                           ELSE IF safe.kind = "raise"
                           THEN /\ Raise("IndexError") /\ alwaysRetry' = FALSE
                                /\ UNCHANGED <<cmdline, passed, stop>>
                           ELSE IF gate_rejects(safe)
                           THEN /\ pc' = "explain" /\ alwaysRetry' = FALSE
                                /\ stop' = Stopped("r-gate", next_cmd)
                                /\ UNCHANGED <<cmdline, crash, passed>>
                           ELSE /\ cmdline' = safe.val
                                /\ passed' = passed \cup {safe.val}
                                /\ pc' = "loop"
                                /\ alwaysRetry' = (alwaysRetry /\ BlankRetry(resp))
                                /\ UNCHANGED <<crash, stop>>
    /\ UNCHANGED <<args, no_explain, success_pat, initial_cmd, attempts, last_rc, last_out, last_err,
                   exit_code, runs, lastRun, log, explained, fin, fres>>

main_return_zero(ok) == 0

\* line 306: return 0 if is_effective_success(...) else 1
main_return(ok) == IF ok THEN 0 ELSE 1

explain_survives_success(outcome) == outcome # "failed"

\* lines 291-304: the explanation runs inside try / except Exception, so
\* main goes on to its return whatever the explanation did
explain_survives(outcome) == outcome \in {"skipped", "made", "failed"}

\* lines 289-306: the optional explanation, whose failure is caught, and the return
Explain ==
    /\ pc = "explain"
    /\ \E outcome \in {"skipped", "made", "failed"} :
          /\ explained' = outcome
          /\ no_explain' = (outcome = "skipped")
          /\ llm' = IF outcome = "skipped" THEN llm ELSE Append(llm, "explain")
          /\ IF explain_survives(outcome)
             THEN /\ Return(main_return(is_effective_success(last_rc, last_out,
                             args.crit.require_output, success_pat, args.crit.min_bytes)))
                  /\ UNCHANGED crash
             ELSE Raise("RuntimeError") /\ UNCHANGED exit_code
    /\ UNCHANGED <<args, success_pat, initial_cmd, cmdline, attempts, last_rc, last_out,
                   last_err, runs, lastRun, log, passed, confirms, declined,
                   adviceShape, alwaysRetry, stop, fin, fres>>

\* lines 309-310: raise SystemExit(main()); an exception that leaves main ends
\* the interpreter with status 1
ProcessStatus == IF pc = "crashed" THEN 1 ELSE exit_code

Next == Propose \/ SudoPolicy \/ Gate \/ Attempt \/ LoopExit \/ PlanRetry \/ Explain

Spec == Init /\ [][Next]_vars

\* main is a sequential program: while a step is possible, one is taken.
\* The actions exclude one another by pc, so this is weak fairness of each;
\* Gate is possible exactly when pc = "gate" and always leaves that position,
\* so its weak fairness is written as []<>(pc # "gate").
SpecLive ==
    /\ Spec
    /\ WF_vars(Propose) /\ WF_vars(SudoPolicy) /\ []<>(pc # "gate")
    /\ WF_vars(Attempt) /\ WF_vars(LoopExit) /\ WF_vars(PlanRetry) /\ WF_vars(Explain)

(***************************************************************************)
(* Function harnesses: the sanitizers and the success classifier applied   *)
(* to every input of a bounded set                                         *)
(***************************************************************************)

\* longest text given to the sanitizers
MaxLen == 4
\* longest stdout given to the classifier
MaxOut == 2
\* largest --min-bytes given to the classifier
MaxBytes == 2

SeqsUpTo(S, n) == UNION {[1..k -> S] : k \in 0..n}

SanAlphabet == {"$", " ", "\n", "a", "#"}

IdleMain == InitMain(CHOOSE a \in ArgSpace : TRUE)

InitSan ==
    /\ IdleMain
    /\ fin \in SeqsUpTo(SanAlphabet, MaxLen)
    /\ fres = [done |-> FALSE, san |-> NoneV, ext |-> NoneV]

ApplySanitizers ==
    /\ ~fres.done
    /\ fres' = [done |-> TRUE, san |-> sanitize_command(fin), ext |-> extract_command(fin)]
    /\ UNCHANGED <<fin, mainVars>>

SpecSan == InitSan /\ [][ApplySanitizers]_vars

ClassifierInputs ==
    [rc : {0, 1}, out : SeqsUpTo({" ", "x", "\n"}, MaxOut), require_output : BOOLEAN,
     min_bytes : (-1)..MaxBytes,
     pat : {NoPattern, Literal(<<"x">>), Literal(<<>>), IPv4Pattern}]

InitClassify ==
    /\ IdleMain
    /\ fin \in ClassifierInputs
    /\ fres = [done |-> FALSE, ok |-> FALSE]

Classify ==
    /\ ~fres.done
    /\ fres' = [done |-> TRUE,
                ok |-> is_effective_success(fin.rc, fin.out, fin.require_output,
                                            fin.pat, fin.min_bytes)]
    /\ UNCHANGED <<fin, mainVars>>

SpecClassify == InitClassify /\ [][Classify]_vars

\* longest retry response, in pieces, given to extract_json_line
MaxPieces == 3

Pieces == {Prose, OpenBrace, CloseBrace, Obj(RetryTrue), Obj(RetryFalse)}

InitJson ==
    /\ IdleMain
    /\ fin \in SeqsUpTo(Pieces, MaxPieces)
    /\ fres = [done |-> FALSE, json |-> NoDict]

ExtractJson ==
    /\ ~fres.done
    /\ fres' = [done |-> TRUE, json |-> extract_json_line(fin)]
    /\ UNCHANGED <<fin, mainVars>>

SpecJson == InitJson /\ [][ExtractJson]_vars

\* largest wait (and, negated, smallest), in seconds, of a retry decision
MaxWait == 12

\* line 285: min(wait_sec, 10.0)
SleepCap == 10

\* line 259: float(plan.get("wait_sec", 0) or 0) for an absent or numeric
\* value, in whole seconds (a non-numeric text raises ValueError instead)
wait_seconds(wait) == IF wait.kind = "num" THEN wait.n ELSE 0

sleep_seconds_uncapped(w) == IF w > 0 THEN w ELSE 0

\* lines 284-285: if wait_sec > 0: time.sleep(min(wait_sec, 10.0))
sleep_seconds(w) == IF w > 0 THEN (IF w < SleepCap THEN w ELSE SleepCap) ELSE 0

\* a parsed retry decision, and whether its command gets through the sudo
\* policy and the gate
WaitInputs ==
    [retry : BOOLEAN,
     wait : {AbsentWait, TextWait} \cup {NumWait(n) : n \in (-MaxWait)..MaxWait},
     candidate_ok : BOOLEAN]

InitWait ==
    /\ IdleMain
    /\ fin \in WaitInputs
    /\ fres = [done |-> FALSE, raised |-> FALSE, again |-> FALSE, slept |-> 0]

\* lines 257-287 for a decision that is there: wait_sec is converted first,
\* then retry=false, the sudo policy and the gate may leave the loop, and only
\* then does main sleep and go on to the next attempt
RetryWait ==
    /\ ~fres.done
    /\ fres' =
         IF fin.wait.kind = "text"
         THEN [done |-> TRUE, raised |-> TRUE, again |-> FALSE, slept |-> 0]
         ELSE IF ~fin.retry \/ ~fin.candidate_ok
         THEN [done |-> TRUE, raised |-> FALSE, again |-> FALSE, slept |-> 0]
         ELSE [done |-> TRUE, raised |-> FALSE, again |-> TRUE,
               slept |-> sleep_seconds(wait_seconds(fin.wait))]
    /\ UNCHANGED <<fin, mainVars>>

SpecWait == InitWait /\ [][RetryWait]_vars

(***************************************************************************)
(* The entry points with an override flag:                                 *)
(*   services/mcp/mcp_cmd.py   (--allow-dangerous)                         *)
(*   agents/command_agent.py   (--unsafe)                                  *)
(***************************************************************************)

\* mcp_cmd.py, is_dangerous: the list "bad"
MCP_BAD ==
    { <<"s","u","d","o">>,                        \* "sudo"
      <<"r","m"," ","-","r","f">>,                \* "rm -rf"
      <<"m","k","f","s">>,                        \* "mkfs"
      <<":","(",")","{">>,                        \* ":(){"
      <<"s","h","u","t","d","o","w","n">>,        \* "shutdown"
      <<"r","e","b","o","o","t">>,                \* "reboot"
      <<"d","d"," ","i","f","=">> }               \* "dd if="

\* mcp_cmd.py, is_dangerous: any(b in cmd for b in bad), the case kept
mcp_is_dangerous(cmd) == \E b \in MCP_BAD : Contains(cmd, b)

\* mcp_cmd.py lines 220, 263: is_dangerous(cmdline) and not args.allow_dangerous
mcp_blocked(cmd, allow_dangerous) == mcp_is_dangerous(cmd) /\ ~allow_dangerous

\* mcp_cmd.py line 242: attempt >= 3
McpMaxAttempts == 3

\* A regular expression is a sequence of items: one character of a set, a
\* run of one or more whitespace characters, or any text without a line feed.
OneOf(cs) == [k |-> "one", cs |-> cs]
Spaces == [k |-> "spaces", cs |-> {}]
AnyText == [k |-> "any", cs |-> {}]
Lit(t) == [i \in DOMAIN t |-> OneOf({t[i]})]
LettersCToZ == {"c","d","e","f","g","h","i","j","k","l","m","n","o","p","q","r",
                "s","t","u","v","w","x","y","z"}

\* re.match(pattern, s, re.IGNORECASE) for such a pattern
RECURSIVE MatchHere(_, _)
MatchHere(pat, s) ==
    IF pat = <<>> THEN TRUE
    ELSE LET h == Head(pat)
             rest(n) == MatchHere(Tail(pat), SubSeq(s, n + 1, Len(s)))
         IN  IF h.k = "one"
             THEN s # <<>> /\ LowerChar(s[1]) \in h.cs /\ rest(1)
             ELSE IF h.k = "spaces"
             THEN \E n \in 1..Len(s) :
                     (\A i \in 1..n : s[i] \in WhiteSpace) /\ rest(n)
             ELSE \E n \in 0..Len(s) : (\A i \in 1..n : s[i] # "\n") /\ rest(n)

\* re.search(pattern, s, re.IGNORECASE)
Search(pat, s) == \E i \in 0..Len(s) : MatchHere(pat, SubSeq(s, i + 1, Len(s)))

\* command_agent.py, CommandAgent.DANGEROUS_PATTERNS
DANGEROUS_PATTERNS ==
    { Lit(<<"r","m">>) \o <<Spaces>> \o Lit(<<"-","r","f">>) \o <<Spaces>> \o Lit(<<"/">>),
      Lit(<<"f","o","r","m","a","t">>) \o <<Spaces>>
          \o <<OneOf(LettersCToZ)>> \o Lit(<<":">>),
      Lit(<<"d","e","l">>) \o <<Spaces>> \o Lit(<<"/">>) \o <<OneOf({"s", "q"})>>,
      Lit(<<"s","h","u","t","d","o","w","n">>),
      Lit(<<"r","e","b","o","o","t">>),
      Lit(<<"h","a","l","t">>),
      Lit(<<"s","y","s","t","e","m","c","t","l">>) \o <<Spaces>> \o Lit(<<"s","t","o","p">>),
      Lit(<<"s","e","r","v","i","c","e">>)
          \o <<Spaces>> \o <<AnyText>> \o <<Spaces>> \o Lit(<<"s","t","o","p">>),
      Lit(<<"k","i","l","l">>) \o <<Spaces>> \o Lit(<<"-","9">>) \o <<Spaces>> \o Lit(<<"1">>),
      Lit(<<"d","d">>) \o <<Spaces>> \o Lit(<<"i","f","=">>)
          \o <<AnyText>> \o Lit(<<"o","f","=","/","d","e","v","/">>),
      Lit(<<"f","d","i","s","k">>),
      Lit(<<"m","k","f","s">>),
      Lit(<<"m","o","u","n","t">>) \o <<AnyText>> \o Lit(<<"u","m","o","u","n","t">>) }

\* command_agent.py, CommandAgent.SAFE_COMMANDS
SAFE_COMMANDS ==
    { <<"l","s">>, <<"d","i","r">>, <<"p","w","d">>, <<"c","d">>, <<"c","a","t">>,
      <<"t","y","p","e">>, <<"e","c","h","o">>, <<"f","i","n","d">>,
      <<"g","r","e","p">>, <<"g","i","t">>, <<"p","y","t","h","o","n">>,
      <<"p","i","p">>, <<"n","p","m">>, <<"n","o","d","e">>, <<"c","u","r","l">>,
      <<"w","g","e","t">>, <<"p","s">>, <<"t","o","p">>,
      <<"n","e","t","s","t","a","t">>, <<"p","i","n","g">>,
      <<"t","r","a","c","e","r","t">>, <<"n","s","l","o","o","k","u","p">>,
      <<"h","e","a","d">>, <<"t","a","i","l">>, <<"w","c">>, <<"s","o","r","t">>,
      <<"u","n","i","q">>, <<"c","u","t">>, <<"a","w","k">>, <<"s","e","d">>,
      <<"c","p">>, <<"c","o","p","y">>, <<"m","v">>, <<"m","o","v","e">>,
      <<"m","k","d","i","r">>, <<"t","o","u","c","h">>, <<"w","h","i","c","h">>,
      <<"w","h","e","r","e">> }

\* shlex.split(command)[0] for a command without quotes and backslashes:
\* the first run of non-whitespace characters (none for a blank command)
FirstWord(command) ==
    LET s == Strip(command)
        ends == {i \in 1..Len(s) : s[i] \in WhiteSpace}
    IN  IF s = <<>> THEN NoneV
        ELSE IF ends = {} THEN Str(s)
        ELSE Str(SubSeq(s, 1, (CHOOSE i \in ends : \A j \in ends : i <= j) - 1))

\* os.path.basename(p)
Basename(p) ==
    LET cuts == {i \in 1..Len(p) : p[i] = "/"}
    IN  IF cuts = {} THEN p
        ELSE SubSeq(p, (CHOOSE i \in cuts : \A j \in cuts : i >= j) + 1, Len(p))

\* s.replace(sub, "")
RECURSIVE RemoveAll(_, _)
RemoveAll(s, sub) ==
    IF Len(s) < Len(sub) THEN s
    ELSE IF SubSeq(s, 1, Len(sub)) = sub
    THEN RemoveAll(SubSeq(s, Len(sub) + 1, Len(s)), sub)
    ELSE <<s[1]>> \o RemoveAll(Tail(s), sub)

\* command_agent.py lines 111-113: the command name checked in safe mode
BaseCommand(word) == RemoveAll(Basename(Lower(word)), <<".","e","x","e">>)

\* command_agent.py, CommandAgent.is_safe_command: the first element of the
\* returned pair
is_safe_command(command, safe_mode) ==
    IF \E pat \in DANGEROUS_PATTERNS : Search(pat, command) THEN FALSE
    ELSE IF safe_mode /\ FirstWord(command).kind = "str"
    THEN BaseCommand(FirstWord(command).val) \in SAFE_COMMANDS
    ELSE TRUE

cReboot     == <<"r","e","b","o","o","t">>                   \* "reboot"
cRmRfHome   == <<"r","m"," ","-","r","f"," ","~">>           \* "rm -rf ~"
cBinLs      == <<"/","b","i","n","/","L","S"," ","-","l">>   \* "/bin/LS -l"
\* plan_command("recent_logs", {"vcs": "git"})
cGitLog     == <<"g","i","t"," ","-","-","n","o","-","p","a","g","e","r"," ",
                 "l","o","g"," ","-","-","o","n","e","l","i","n","e"," ",
                 "-","n"," ","3">>

\* mcp_cmd: what ask_llm and extract_command give: an exception, nothing, or
\* a one-line command
McpResponses ==
    {[raise |-> TRUE, cmd |-> NoneV], [raise |-> FALSE, cmd |-> NoneV]}
      \cup {[raise |-> FALSE, cmd |-> Str(c)] : c \in {cLs, cRmRf, cReboot, cSudoLs}}

\* command_agent: the command words joined by blanks
AgentCommands == {cLs, cBinLs, cRmRf, cRmRfHome, cReboot, cSudoLs, cLsReboot}

\* the invocations: the entry point, its override flag (--allow-dangerous or
\* --unsafe), --dry-run, the command planned from the goal and the directory
\* (mcp_cmd), and the command given (command_agent)
OverrideInvocations ==
    {[entry |-> "mcp_cmd", flag |-> f, dry_run |-> d, planned |-> pl, command |-> <<>>] :
        f \in BOOLEAN, d \in BOOLEAN, pl \in {NoneV, Str(cGitLog)}}
      \cup {[entry |-> "command_agent", flag |-> f, dry_run |-> FALSE,
             planned |-> NoneV, command |-> c] : f \in BOOLEAN, c \in AgentCommands}

\* state of an entry point: its position, the command line, the attempt
\* number, the last exit code, the commands given to subprocess.run so far,
\* and the status it returned
EntryStart ==
    [pc |-> "start", cmdline |-> <<>>, attempt |-> 0, rc |-> 0, executed |-> <<>>, ret |-> 0]

InitOverride ==
    /\ IdleMain
    /\ fin \in OverrideInvocations
    /\ fres = EntryStart

EntryReturn(st, code) == [st EXCEPT !.pc = "returned", !.ret = code]

\* mcp_cmd.py lines 198-230: the first command, its check, --dry-run
McpFirst ==
    /\ fin.entry = "mcp_cmd" /\ fres.pc = "start"
    /\ \E resp \in McpResponses :
          IF resp.raise \/ resp.cmd.kind = "none"
          THEN fres' = EntryReturn(fres, 1)
          ELSE LET chosen == IF fin.planned.kind = "str" THEN fin.planned.val
                              ELSE resp.cmd.val
                   st == [fres EXCEPT !.cmdline = chosen]
               IN  IF mcp_blocked(chosen, fin.flag) THEN fres' = EntryReturn(st, 1)
                   ELSE IF fin.dry_run THEN fres' = EntryReturn(st, 0)
                   ELSE fres' = [st EXCEPT !.pc = "run", !.attempt = 1]
    /\ UNCHANGED <<fin, mainVars>>

\* mcp_cmd.py lines 231-244 and 273-291: one execution; the loop ends on exit
\* code 0 or after the third attempt, and main returns the exit code
McpRun ==
    /\ fin.entry = "mcp_cmd" /\ fres.pc = "run"
    /\ \E rc \in {0, 1} :
          LET st == [fres EXCEPT !.executed = Append(@, fres.cmdline), !.rc = rc]
          IN  IF rc = 0 \/ fres.attempt >= McpMaxAttempts
              THEN fres' = EntryReturn(st, rc)
              ELSE fres' = [st EXCEPT !.pc = "retry"]
    /\ UNCHANGED <<fin, mainVars>>

\* mcp_cmd.py lines 246-271: the retry command and its check
McpRetry ==
    /\ fin.entry = "mcp_cmd" /\ fres.pc = "retry"
    /\ \E resp \in McpResponses :
          IF resp.raise THEN fres' = EntryReturn(fres, fres.rc)
          ELSE IF fin.planned.kind = "none"
                  /\ (resp.cmd.kind = "none" \/ resp.cmd.val = fres.cmdline)
          THEN fres' = EntryReturn(fres, fres.rc)
          ELSE LET chosen == IF fin.planned.kind = "str" THEN fin.planned.val
                              ELSE resp.cmd.val
                   st == [fres EXCEPT !.cmdline = chosen]
               IN  IF mcp_blocked(chosen, fin.flag) THEN fres' = EntryReturn(st, 1)
                   ELSE fres' = [st EXCEPT !.pc = "run", !.attempt = @ + 1]
    /\ UNCHANGED <<fin, mainVars>>

\* command_agent.py lines 607-644 and 160-235: --unsafe switches safe_mode off;
\* execute_command refuses an unsafe command with exit code -1, otherwise runs
\* it (exit code -2 on a timeout)
AgentExecute ==
    /\ fin.entry = "command_agent" /\ fres.pc = "start"
    /\ LET st == [fres EXCEPT !.cmdline = fin.command]
       IN  IF ~is_safe_command(fin.command, ~fin.flag)
           THEN fres' = EntryReturn(st, -1)
           ELSE \E rc \in {0, 1, -2} :
                   fres' = EntryReturn([st EXCEPT !.executed = Append(@, fin.command),
                                                  !.rc = rc], rc)
    /\ UNCHANGED <<fin, mainVars>>

NextOverride == McpFirst \/ McpRun \/ McpRetry \/ AgentExecute

SpecOverride == InitOverride /\ [][NextOverride]_vars

(***************************************************************************)
(* Two runs of cmd_exec.py that share the event log.  log_event opens the   *)
(* file in append mode, writes one line with a single write and closes it,  *)
(* so one log_event call is one atomic append; the calls of the two runs    *)
(* interleave in any order.                                                 *)
(***************************************************************************)

RunIds == {1, 2}

\* state of one run: its position (run: at the head of the loop, log: between
\* run_once and log_event, end), its loop counter and the exit code of its
\* latest attempt
RunStart == [pc |-> "run", attempts |-> 0, rc |-> 1]

InitLog ==
    /\ IdleMain
    /\ fin \in [RunIds -> 1..MaxAttempts]          \* --max-attempts of each run
    /\ fres = [run |-> [r \in RunIds |-> RunStart],
               started |-> [r \in RunIds |-> 0],   \* commands started by run_once
               log |-> <<>>]                       \* the shared file, line by line

\* lines 213-216: the loop condition holds and run_once starts the command,
\* which returns or raises TimeoutExpired out of main
ConcurrentAttempt(r) ==
    /\ fres.run[r].pc = "run"
    /\ loop_continues(fres.run[r].attempts, fin[r])
    /\ \E o \in {"timeout", "ok", "failed"} :
          fres' = [fres EXCEPT
                     !.started[r] = @ + 1,
                     !.run[r] = [pc |-> IF o = "timeout" THEN "end" ELSE "log",
                                 attempts |-> @.attempts + 1,
                                 rc |-> IF o = "ok" THEN 0 ELSE 1]]
    /\ UNCHANGED <<fin, mainVars>>

\* lines 223-287: log_event appends the entry of the attempt; then the run
\* is over (success, or the retry plan stops it) or goes round the loop
ConcurrentLogEvent(r) ==
    /\ fres.run[r].pc = "log"
    /\ \E again \in BOOLEAN :
          fres' = [fres EXCEPT
                     !.log = Append(@, [kind |-> "exec", run |-> r,
                                        attempt |-> fres.run[r].attempts,
                                        rc |-> fres.run[r].rc]),
                     !.run[r].pc = IF fres.run[r].rc # 0 /\ again THEN "run" ELSE "end"]
    /\ UNCHANGED <<fin, mainVars>>

\* line 213: the loop condition fails
ConcurrentLoopExit(r) ==
    /\ fres.run[r].pc = "run"
    /\ ~loop_continues(fres.run[r].attempts, fin[r])
    /\ fres' = [fres EXCEPT !.run[r].pc = "end"]
    /\ UNCHANGED <<fin, mainVars>>

NextLog ==
    \E r \in RunIds : ConcurrentAttempt(r) \/ ConcurrentLogEvent(r) \/ ConcurrentLoopExit(r)

SpecLog == InitLog /\ [][NextLog]_vars

(***************************************************************************)
(* CommandAgent's table of background processes (command_agent.py).  A      *)
(* Popen object's returncode attribute stays None until poll, wait or       *)
(* communicate has reaped the child: the child's exit alone does not set    *)
(* it.  send_signal (terminate, kill) polls before it signals.              *)
(***************************************************************************)

MaxProcs == 2
ProcIds == 1..MaxProcs
ExitCodes == {0, 1}
AsyncCommands == {cLs, cReboot}

\* one Popen object: the child as the system sees it (none, running, exited
\* with exit_status) and the returncode attribute (<<>> is None)
NoProcess == [os |-> "none", exit_status |-> 0, returncode |-> <<>>]

NoCall == [op |-> "none", id |-> 0, seq |-> 0, kind |-> "none"]

\* the latest call and what it returned; seq tells one call from the next
Call(op, id, result) == [op |-> op, id |-> id, seq |-> 1 - fres.last.seq] @@ result

InitAgent ==
    /\ IdleMain
    /\ fin \in [safe_mode : BOOLEAN]
    /\ fres = [running_processes |-> {},
               process |-> [id \in ProcIds |-> NoProcess],
               started |-> 0,
               last |-> NoCall]

\* execute_async: the safety check, then Popen and the entry in the table
execute_async ==
    \E command \in AsyncCommands :
       IF ~is_safe_command(command, fin.safe_mode)
       THEN fres' = [fres EXCEPT !.last = Call("execute_async", 0, [kind |-> "error"])]
       ELSE \/ fres' = [fres EXCEPT !.last = Call("execute_async", 0, [kind |-> "error"])]
            \/ /\ fres.started < MaxProcs
               /\ LET process_id == fres.started + 1
                  IN  fres' = [fres EXCEPT
                                 !.started = process_id,
                                 !.process[process_id] =
                                     [os |-> "running", exit_status |-> 0, returncode |-> <<>>],
                                 !.running_processes = @ \cup {process_id},
                                 !.last = Call("execute_async", process_id, [kind |-> "id"])]

ExecuteAsync == execute_async /\ UNCHANGED <<fin, mainVars>>

\* the child of a started process exits by itself; nothing in the agent runs
ProcessExits ==
    /\ \E id \in ProcIds : \E c \in ExitCodes :
          /\ fres.process[id].os = "running"
          /\ fres' = [fres EXCEPT !.process[id].os = "exited",
                                  !.process[id].exit_status = c]
    /\ UNCHANGED <<fin, mainVars>>

\* check_process_status: None for an id that is not in the table; else the
\* status read from the returncode attribute, and for a set returncode the
\* output is collected and the entry deleted unless communicate times out
check_process_status(process_id) ==
    IF process_id \notin fres.running_processes
    THEN fres' = [fres EXCEPT !.last = Call("check_process_status", process_id, [kind |-> "none"])]
    ELSE LET process == fres.process[process_id]
             status == [kind |-> "status", returncode |-> process.returncode,
                        is_running |-> process.returncode = <<>>]
         IN  IF process.returncode # <<>>
             THEN \/ fres' = [fres EXCEPT
                                !.running_processes = @ \ {process_id},
                                !.last = Call("check_process_status", process_id, status)]
                  \/ fres' = [fres EXCEPT
                                !.last = Call("check_process_status", process_id, status)]
             ELSE fres' = [fres EXCEPT
                             !.last = Call("check_process_status", process_id, status)]

CheckProcessStatus(process_id) ==
    check_process_status(process_id) /\ UNCHANGED <<fin, mainVars>>

\* the Popen object after a wait or poll that found the child gone
Reaped(process, code) == [os |-> "exited", exit_status |-> code, returncode |-> <<code>>]

\* kill_process: False for an id that is not in the table; else the signal
\* (which polls first), the wait of 5 seconds, for a terminate that was not
\* obeyed a kill and a second wait, and the entry deleted.  A second wait
\* that times out is caught by the outer handler: False, the entry stays.
\* With force a wait that times out is passed over and the entry deleted.
kill_process(process_id, force) ==
    IF process_id \notin fres.running_processes
    THEN fres' = [fres EXCEPT !.last = Call("kill_process", process_id,
                                            [kind |-> "bool", ok |-> FALSE])]
    ELSE LET process == fres.process[process_id]
             deleted(p) == [fres EXCEPT
                              !.process[process_id] = p,
                              !.running_processes = @ \ {process_id},
                              !.last = Call("kill_process", process_id,
                                            [kind |-> "bool", ok |-> TRUE])]
         IN  IF process.os = "exited"
             THEN fres' = deleted(Reaped(process, process.exit_status))
             ELSE \/ fres' = deleted(Reaped(process, IF force THEN -9 ELSE -15))
                  \/ /\ force
                     /\ fres' = deleted(process)
                  \/ /\ ~force
                     /\ \/ fres' = deleted(Reaped(process, -9))
                        \/ fres' = [fres EXCEPT !.last = Call("kill_process", process_id,
                                                              [kind |-> "bool", ok |-> FALSE])]

KillProcess ==
    /\ \E process_id \in ProcIds : \E force \in BOOLEAN : kill_process(process_id, force)
    /\ UNCHANGED <<fin, mainVars>>

NextAgent ==
    \/ ExecuteAsync
    \/ ProcessExits
    \/ \E process_id \in ProcIds : CheckProcessStatus(process_id)
    \/ KillProcess

SpecAgent == InitAgent /\ [][NextAgent]_vars

\* the caller goes on asking for the status of every id
SpecAgentLive == SpecAgent /\ \A process_id \in ProcIds : WF_vars(CheckProcessStatus(process_id))

(***************************************************************************)
(* Properties                                                              *)
(***************************************************************************)

Count(seq, x) == Cardinality({i \in DOMAIN seq : seq[i] = x})
Max0(n) == IF n > 0 THEN n ELSE 0

\* The hard-denylist signatures, wherever they sit in a command line: those of
\* DANGER_TOKENS without their leading blank, and killing PID 1.
Signatures == {
    <<"r","m"," ","-","r","f">>,                              \* "rm -rf"
    <<"m","k","f","s">>,                                      \* "mkfs"
    <<"d","d"," ","i","f","=">>,                              \* "dd if="
    <<"s","h","u","t","d","o","w","n">>,                      \* "shutdown"
    <<"r","e","b","o","o","t">>,                              \* "reboot"
    <<"p","o","w","e","r","o","f","f">>,                      \* "poweroff"
    <<":","(",")","{"," ",":","|",":","&"," ","}",";",":">>,  \* ":(){ :|:& };:"
    <<":","(",")","{",":","|",":","&","}",";",":">>,          \* ":(){:|:&};:"
    <<"k","i","l","l"," ","-","9"," ","1">> }                 \* "kill -9 1"

HasSignature(cmd) == \E sig \in Signatures : Contains(Lower(cmd), sig)

\* C1: no command that contains a hard-denylist signature, wherever the
\* signature sits in it, is ever passed to run_once, on the first attempt or
\* on a retry, under any sudo policy.
C1_DenylistAbsolute == \A i \in DOMAIN runs : ~HasSignature(runs[i].cmd)

\* C2: every command passed to run_once, on the first attempt and on every
\* retry, is a non-none result of sanitize_command, and is a command the gate
\* (is_dangerous / non_destructive_only) does not block.
C2_GatePrecedesExecution ==
    \A i \in DOMAIN runs :
        /\ runs[i].cmd \in passed
        /\ ~is_dangerous(runs[i].cmd)
        /\ non_destructive_only(runs[i].cmd)

\* C2 witness: a second attempt ran a command that the retry plan proposed.
C2_Witness == Len(runs) >= 2 /\ runs[2].cmd # runs[1].cmd

\* C3: run_once is called at most max_attempts times (never when
\* max_attempts <= 0); and a run whose attempts all fail and whose retry plans
\* are all well-formed retry=true decisions with a blank next command that
\* passes the gate executes exactly max_attempts attempts and exits with 1.
C3_BoundedRetries ==
    /\ Len(runs) <= Max0(args.max_attempts)
    /\ (pc = "done" /\ alwaysRetry /\ passed # {})
          => (Len(runs) = Max0(args.max_attempts) /\ exit_code = 1)

\* C3 witness: the budget of MaxAttempts attempts was used up by blank retries.
C3_Witness ==
    /\ pc = "done" /\ alwaysRetry /\ passed # {}
    /\ args.max_attempts = MaxAttempts /\ Len(runs) = MaxAttempts
    /\ Count(llm, "retry") = MaxAttempts
    /\ exit_code = 1

\* C4: when the run ends, its exit code is 0 exactly when an attempt was
\* executed and the last attempt that returned is an effective success under
\* the run's criteria, and 1 on every other path.
C4_ExitCode ==
    pc \in {"done", "crashed"} =>
        /\ ProcessStatus \in {0, 1}
        /\ ProcessStatus = 0 <=>
              /\ Len(runs) > 0
              /\ is_effective_success(lastRun.rc, lastRun.out, args.crit.require_output,
                                      success_pat, args.crit.min_bytes)

\* C4 witness: a run that failed once and then succeeded returned 0.
C4_Witness == pc = "done" /\ exit_code = 0 /\ Len(runs) = 2 /\ runs[1].rc = 1

\* C5 (as stated): exit code 0, require_output and a blank stdout make
\* is_effective_success false for every min_bytes and every pattern.
C5_BlankOutputFails ==
    (fres.done /\ fin.rc = 0 /\ fin.require_output /\ Strip(fin.out) = <<>>) => ~fres.ok

\* C5 (amended): exit code 0, require_output and a blank stdout make
\* is_effective_success false for every min_bytes >= 1 and every pattern; with
\* min_bytes <= 0 the output requirement is off.
C5_BlankOutputFailsFromOneByte ==
    (fres.done /\ fin.rc = 0 /\ fin.require_output /\ Strip(fin.out) = <<>>
       /\ fin.min_bytes >= 1) => ~fres.ok

\* C5 witness: a whitespace-only stdout was rejected although the pattern
\* matches it.
C5_Witness ==
    /\ fres.done /\ ~fres.ok
    /\ fin.rc = 0 /\ fin.require_output /\ fin.min_bytes = 1
    /\ fin.out = <<" ">> /\ fin.pat = Literal(<<>>)

\* C6: after a retry response that is not JSON, lacks the retry key, has a
\* non-numeric wait or a next command that is only the "$" marker, the run
\* stops retrying without an exception: it is at the explanation or has returned.
C6_InvalidPlanStops ==
    adviceShape \in {"nojson", "nokeys", "badwait", "marker"} => pc \in {"explain", "done"}

\* C7: an attempt that timed out is logged as a failed attempt and raises
\* nothing, so that the loop goes on to the retry plan.
C7_TimeoutIsFailedAttempt ==
    \A i \in DOMAIN runs : runs[i].timeout => (crash = "none" /\ Len(log) >= i)

\* a text of several lines whose first line begins with the "$" marker
MarkedMultiLine(raw) ==
    /\ raw # <<>> /\ raw[1] = "$"
    /\ \E i \in DOMAIN raw : raw[i] = "\n"

\* the first line with the marker and the surrounding whitespace removed
MarkedFirstLine(raw) == Strip(Tail(SplitLines(raw)[1]))

\* C8: for a text of several lines whose first line begins with "$",
\* sanitize_command returns that first line without the marker and nothing of
\* a later line (none when the first line is only the marker).
C8_SanitizerSingleLine ==
    (fres.done /\ MarkedMultiLine(fin)) =>
        fres.san = IF MarkedFirstLine(fin) = <<>> THEN NoneV
                   ELSE Str(MarkedFirstLine(fin))

OnlySudoRule(cmd) ==
    \A tok \in (DANGER_TOKENS \cup Banned) \ {SudoToken} :
        ~Contains(Padded(Lower(cmd)), tok)

\* C10: under sudo policy allow, a first command that holds a sudo token and
\* matches no other rule has passed the gate once main is beyond it.
C10_SudoAllowPasses ==
    (args.sudo = "allow" /\ has_sudo(initial_cmd) /\ OnlySudoRule(initial_cmd)
       /\ pc \in {"loop", "plan", "explain", "done"}) => passed # {}

\* C11: under sudo policy deny no command holding a sudo token is ever passed
\* to run_once; a first command holding one is rejected by the policy, before
\* the gate, and the run returns 1 without an attempt; a retry command holding
\* one stops the loop and no attempt follows.
C11_SudoDenyRejects ==
    args.sudo = "deny" =>
        /\ \A i \in DOMAIN runs : ~has_sudo(runs[i].cmd)
        /\ (has_sudo(initial_cmd) /\ pc \notin {"start", "sudo"}) =>
              /\ pc = "done" /\ exit_code = 1
              /\ stop.why = "sudo-deny" /\ runs = <<>>
        /\ stop.why = "r-sudo-deny" =>
              /\ has_sudo(stop.cmd)
              /\ pc \in {"explain", "done"}
              /\ Len(runs) = stop.at

\* C11 witness: under deny, a retry plan proposed a sudo command after a
\* failed attempt, and the run ended with that one attempt.
C11_Witness ==
    /\ args.sudo = "deny" /\ stop.why = "r-sudo-deny" /\ pc = "done"
    /\ Len(runs) = 1 /\ args.max_attempts = MaxAttempts

\* C12: in mcp_cmd and in command_agent a command that holds a hard-denylist
\* signature is never given to subprocess.run, with the override flag set or
\* not, as the first command or as a retry command.
C12_NoOverrideOpensDenylist ==
    \A i \in DOMAIN fres.executed : ~HasSignature(fres.executed[i])

\* the run has to ask the collaborator for its first command: no --cmd, no
\* "$" literal, no recipe keyword in the goal
NeedsProposer ==
    /\ args.inv.cmd.kind = "none"
    /\ ~StartsWith(Strip(args.inv.input), <<"$">>)
    /\ \A k \in GoalKeywords : ~Contains(Lower(args.inv.input), k)

\* C13: when the first command has to come from the collaborator and the call
\* fails or yields no command line, main returns 1 at once: the collaborator
\* has been called exactly once, run_once never, and the log is empty.
C13_PlanningFailureTerminal ==
    (NeedsProposer /\ pc # "start" /\ initial_cmd = <<>>) =>
        /\ pc = "done" /\ exit_code = 1
        /\ stop.why = "proposal"
        /\ llm = <<"first">>
        /\ runs = <<>> /\ log = <<>>

\* C13 witness: the goal matched no recipe, the proposal failed, main returned.
C13_Witness ==
    /\ NeedsProposer /\ args.inv.input = cGoalDir
    /\ stop.why = "proposal" /\ pc = "done" /\ exit_code = 1 /\ llm = <<"first">>

\* C14: when sanitize_command rejects the first command, main returns 1 with
\* no run_once call and an empty log; when it rejects a retry command, the
\* loop is left, no run_once call follows, and the log holds no entry for the
\* rejected command.
C14_GateBlockTerminal ==
    /\ (pc \notin {"start", "sudo", "gate"} /\ sanitize_command(initial_cmd).kind = "none") =>
          /\ pc = "done" /\ exit_code = 1
          /\ runs = <<>> /\ log = <<>>
    /\ stop.why = "r-gate" =>
          /\ sanitize_command(stop.cmd).kind = "none"
          /\ pc \in {"explain", "done"}
          /\ Len(runs) = stop.at /\ Len(log) <= stop.at
          /\ \A i \in DOMAIN log : log[i].cmd # stop.cmd

\* C14 witness: after one failed attempt the gate rejected the retry command
\* and the run ended with that one attempt and its one log entry.
C14_Witness ==
    /\ stop.why = "r-gate" /\ stop.cmd = cRmRf /\ pc = "done"
    /\ Len(runs) = 1 /\ Len(log) = 1 /\ args.max_attempts = MaxAttempts

\* C15: at every point of a run the log holds exactly one exec entry for each
\* command started by run_once, in order: the k-th entry carries attempt = k
\* and the command and exit code of the k-th execution, whether that
\* execution succeeded, failed or timed out.
C15_OneLogEntryPerAttempt ==
    /\ Len(log) = Len(runs)
    /\ \A k \in DOMAIN log :
          /\ log[k].kind = "exec" /\ log[k].attempt = k
          /\ log[k].cmd = runs[k].cmd /\ log[k].rc = runs[k].rc

\* the status main returns for the loop's final state, explanation aside
OutcomeOfLoop ==
    IF is_effective_success(last_rc, last_out, args.crit.require_output,
                            success_pat, args.crit.min_bytes)
    THEN 0 ELSE 1

\* C16: whatever the explanation step did after the loop (skipped by
\* --no-explain, made, or failed with an exception), main returns, and it
\* returns the status fixed by the loop's final state: the three cases give
\* the same exit code.
C16_ExplainerNeverChangesOutcome ==
    explained \in {"skipped", "made", "failed"} =>
        /\ pc = "done" /\ crash = "none"
        /\ exit_code = OutcomeOfLoop

\* C16 witness: the explanation failed after a successful attempt, and main
\* returned 0.
C16_Witness ==
    /\ explained = "failed" /\ pc = "done" /\ exit_code = 0
    /\ Len(runs) = 1 /\ llm = <<"explain">>

\* C16 witness of the failing side: the explanation failed after an exhausted
\* budget, and main returned 1.
C16_WitnessFailure ==
    /\ explained = "failed" /\ pc = "done" /\ exit_code = 1
    /\ Len(runs) = MaxAttempts

\* the latest run_once call returned and its result is an effective success
LastAttemptSucceeded ==
    /\ Len(runs) > 0 /\ ~runs[Len(runs)].timeout
    /\ is_effective_success(lastRun.rc, lastRun.out, args.crit.require_output,
                            success_pat, args.crit.min_bytes)

RecipeGoal ==
    /\ args.inv.cmd.kind = "none"
    /\ ~StartsWith(Strip(args.inv.input), <<"$">>)
    /\ \E k \in GoalKeywords : Contains(Lower(args.inv.input), k)

\* C18: once the first candidate is decided, the collaborator has been asked
\* for a first command exactly when the goal is neither a --cmd command nor a
\* "$" literal and holds no recipe keyword (and then once); for a plain goal
\* that holds a recipe keyword the first candidate is the recipe's fixed text.
C18_FirstCandidateSource ==
    pc # "start" =>
        /\ Count(llm, "first") = (IF NeedsProposer THEN 1 ELSE 0)
        /\ RecipeGoal => initial_cmd = RECIPES

\* C18 witness: the goal "Global IP" was served by the recipe, without the
\* collaborator, and the recipe was executed.
C18_Witness ==
    /\ RecipeGoal /\ args.inv.input = cGoalIp /\ initial_cmd = RECIPES
    /\ Count(llm, "first") = 0 /\ Len(runs) >= 1 /\ runs[1].cmd = RECIPES

\* C19: the retry plan is asked for only while budget remains: main is about
\* to ask for it only with attempts < max_attempts, so that a run asks at most
\* max_attempts - 1 times.
C19_PlannerWithinBudget ==
    /\ pc = "plan" => attempts < args.max_attempts
    /\ Count(llm, "retry") <= Max0(args.max_attempts - 1)

\* the reference formula of the success classifier
effective_success(rc, out, require_output, min_bytes, pat) ==
    /\ rc = 0
    /\ (~require_output \/ Len(Strip(out)) >= min_bytes)
    /\ (pat = NoPattern \/ PatternSearch(pat, out))

\* C20: for every exit code, stdout, require_output, min_bytes (negative,
\* zero, positive) and pattern setting, is_effective_success returns
\* (rc = 0) and (not require_output or the trimmed stdout has at least
\* min_bytes characters) and (no pattern or the pattern matches stdout); the
\* verdict depends on these inputs alone.
C20_ClassifierMatchesFormula ==
    fres.done =>
        (fres.ok <=> effective_success(fin.rc, fin.out, fin.require_output,
                                       fin.min_bytes, fin.pat))

\* C20 witness: with a negative min_bytes, require_output and an empty stdout
\* are accepted.
C20_Witness ==
    /\ fres.done /\ fres.ok
    /\ fin.rc = 0 /\ fin.require_output /\ fin.min_bytes = -1
    /\ fin.out = <<>> /\ fin.pat = NoPattern

\* the response's first brace opens a decision object, at position i, and
\* text that holds a closing brace follows it
ObjectThenBrace(text, i) ==
    /\ i \in DOMAIN text /\ text[i].t = "obj"
    /\ \A j \in 1..(i - 1) : text[j].t = "text"
    /\ \E j \in (i + 1)..Len(text) : text[j].t \in {"close", "obj"}

\* C21: for a response whose first brace span is a decision object and that
\* goes on with text holding a closing brace, extract_json_line returns that
\* first object.
C21_FirstObjectExtracted ==
    fres.done =>
        \A i \in DOMAIN fin :
            ObjectThenBrace(fin, i) => fres.json = Dict(fin[i].plan)

\* C22: while every retry plan is retry=true with a blank next command, every
\* attempt executes the same command string as the attempt before it.
C22_BlankRetrySameCommand ==
    alwaysRetry => \A i, j \in DOMAIN runs : runs[i].cmd = runs[j].cmd

\* a single line without a code-fence marker and without a leading "$"
CandidateCommand(cmd) ==
    /\ \A i \in DOMAIN cmd : cmd[i] \notin LineBreaks /\ cmd[i] # Backtick
    /\ cmd # <<>> /\ cmd[1] # "$"

\* C23: every command that sanitize_command lets through and every command
\* passed to run_once is a single line that holds no code-fence marker and
\* does not begin with the "$" marker.
C23_CandidateCommandInvariant ==
    /\ \A c \in passed : CandidateCommand(c)
    /\ \A i \in DOMAIN runs : CandidateCommand(runs[i].cmd)

\* a text without a qualifying line: empty or blank, only the "$" marker, or
\* nothing but comment lines
NoQualifyingLine(raw) ==
    \/ Strip(raw) = <<>>
    \/ Strip(raw) = <<"$">>
    \/ \A i \in DOMAIN SplitLines(raw) :
          LET line == Strip(SplitLines(raw)[i])
          IN  line = <<>> \/ line[1] = "#"

\* C24: for a text without a qualifying line sanitize_command returns none
\* and raises nothing.
C24_SanitizerNoneWithoutRaising ==
    (fres.done /\ NoQualifyingLine(fin)) => fres.san = NoneV

\* a candidate of the form "sudo <rest>", and its rest
LeadingSudo(cmd) == StartsWith(cmd, <<"s","u","d","o"," ">>)
SudoRest(cmd) == Strip(SubSeq(cmd, 6, Len(cmd)))

\* C25 (as stated): under deny a first candidate "sudo <rest>" whose rest the
\* gate accepts is turned into that rest, which has passed the gate once main
\* is beyond it.
C25_DenyStripsSudo ==
    (args.sudo = "deny" /\ LeadingSudo(initial_cmd)
       /\ sanitize_command(SudoRest(initial_cmd)).kind = "str"
       /\ pc \notin {"start", "sudo", "gate"}) =>
        sanitize_command(SudoRest(initial_cmd)).val \in passed

\* C25 (amended): under deny a first candidate "sudo <rest>" is rejected, not
\* rewritten: sanitize_command does not turn it into its rest, the policy
\* check returns 1, nothing has passed the gate and nothing is executed.
C25_DenyRejectsLeadingSudo ==
    (args.sudo = "deny" /\ LeadingSudo(initial_cmd) /\ pc \notin {"start", "sudo"}) =>
        /\ sanitize_command(initial_cmd) # Str(SudoRest(initial_cmd))
        /\ pc = "done" /\ exit_code = 1
        /\ passed = {} /\ runs = <<>>

\* C25 witness: under deny the proposer's "sudo ls" ended the run at the
\* policy check although "ls" alone passes the gate.
C25_Witness ==
    /\ args.sudo = "deny" /\ initial_cmd = cSudoLs /\ llm = <<"first">>
    /\ sanitize_command(SudoRest(initial_cmd)) = Str(cLs)
    /\ pc = "done" /\ exit_code = 1 /\ stop.why = "sudo-deny" /\ runs = <<>>

\* C26: the time slept before a next attempt is min(wait, 10) seconds for a
\* numeric wait > 0 and zero for a wait <= 0 or an absent wait; the sleep is
\* always within 0..10 seconds.
C26_BoundedWait ==
    fres.done =>
        /\ fres.slept >= 0 /\ fres.slept <= 10
        /\ (fres.again /\ fin.wait.kind = "num" /\ fin.wait.n > 0) =>
              fres.slept = (IF fin.wait.n <= 10 THEN fin.wait.n ELSE 10)
        /\ (fres.again /\ fin.wait.kind = "num" /\ fin.wait.n <= 0) => fres.slept = 0
        /\ (fres.again /\ fin.wait.kind = "absent") => fres.slept = 0

\* C26 witness: a wait above the cap was cut to 10 seconds before the next
\* attempt.
C26_Witness ==
    /\ fres.done /\ fres.again
    /\ fin.wait.kind = "num" /\ fin.wait.n > 10 /\ fres.slept = 10

\* C27: every run in which each run_once call returns reaches a terminal
\* state of the loop, from which main returns (success, blocked, planning
\* failure, retry stopped or attempts exhausted).
C27_RunReachesTerminalState == <>(pc = "done" \/ crash = "TimeoutExpired")


\* C29: when the loop is over after at least one attempt, the command that
\* the explanation names as the final command (cmdline) is the command of the
\* last executed attempt, and the exit code, stdout and stderr reported with
\* it are that attempt's.
C29_FinalCommandIsLastExecuted ==
    (pc \in {"explain", "done"} /\ Len(runs) > 0) =>
        /\ cmdline = runs[Len(runs)].cmd
        /\ last_rc = lastRun.rc /\ last_out = lastRun.out /\ last_err = lastRun.err

\* the positions in the shared log of the entries of attempt k of run r
EntriesOf(r, k) ==
    {i \in DOMAIN fres.log : fres.log[i].run = r /\ fres.log[i].attempt = k}

\* C28: when two runs that share the log are both over, the log holds every
\* executed attempt of both runs exactly once, and the entries of each single
\* run stand in increasing attempt order.
C28_SharedLogComplete ==
    (\A r \in RunIds : fres.run[r].pc = "end") =>
        /\ \A r \in RunIds : \A k \in 1..fres.started[r] :
              Cardinality(EntriesOf(r, k)) = 1
        /\ \A i, j \in DOMAIN fres.log :
              (i < j /\ fres.log[i].run = fres.log[j].run) =>
                  fres.log[i].attempt < fres.log[j].attempt

\* a process started by execute_async is in the table under the returned id
StartedIsInTable ==
    (fres.last.op = "execute_async" /\ fres.last.kind = "id") =>
        fres.last.id \in fres.running_processes

\* after kill_process has returned true the id is not in the table
KilledIsRemoved ==
    (fres.last.op = "kill_process" /\ fres.last.ok) =>
        fres.last.id \notin fres.running_processes

\* check_process_status and kill_process on an unknown id return None and
\* False and change nothing
UnknownIdStep ==
    \A id \in ProcIds :
       (/\ id \notin fres.running_processes
        /\ fres'.last.id = id
        /\ fres'.last.op \in {"check_process_status", "kill_process"}
        /\ fres'.last.seq # fres.last.seq) =>
           /\ fres'.running_processes = fres.running_processes
           /\ fres'.process = fres.process
           /\ IF fres'.last.op = "kill_process"
              THEN ~fres'.last.ok
              ELSE fres'.last.kind = "none"

\* a check_process_status call that reported is_running = false for the id,
\* with the exit code, and removed it
ReportedExit(id) ==
    /\ fres.last.op = "check_process_status" /\ fres.last.id = id
    /\ fres.last.kind = "status" /\ ~fres.last.is_running
    /\ fres.last.returncode = <<fres.process[id].exit_status>>
    /\ id \notin fres.running_processes

\* C30: a process started by execute_async is in running_processes under its
\* returned id; once it has exited, the status calls for its id eventually
\* report is_running = false with the exit code and remove the id (unless
\* kill_process removed it first); after kill_process returned true the id
\* is gone; and the two calls on an unknown id return None / False and
\* change nothing.
C30_ProcessTable ==
    /\ []StartedIsInTable
    /\ \A id \in ProcIds :
          (id \in fres.running_processes /\ fres.process[id].os = "exited")
             ~> (ReportedExit(id) \/ (fres.last.op = "kill_process" /\ fres.last.id = id
                                          /\ fres.last.ok))
    /\ []KilledIsRemoved
    /\ [][UnknownIdStep]_vars

====
